---- MODULE Spec2Model ----
(***************************************************************************)
(* Model of the resumable backtest engine                                  *)
(*   src/trade_manager.py      TradeManager (ledger, execute_trade,        *)
(*                             load_state, save_to_excel)                  *)
(*   src/backtest_runner.py    main (day loop per ticker)                  *)
(*   src/tradingagents/dataflows/alpha_vantage_news.py  smart_rate_limit   *)
(*                                                                         *)
(* Money amounts in the program are Python floats (IEEE-754 binary64):     *)
(* open_price is float(...) of a market bar and capital becomes a float    *)
(* with the first trade.  The model computes them as the program does:     *)
(* every arithmetic operation is exact-then-rounded to 53 significant      *)
(* bits, round-half-to-even.  A float is a record [s, m, e] of value       *)
(* s * m * 2^e with m a 53-bit natural number held in 14-bit limbs         *)
(* (least significant first), or FZero.  Share counts are integers.        *)
(***************************************************************************)
EXTENDS Integers, Sequences, FiniteSets, TLC

\* ------------------------------------------------------------------------
\* Natural numbers of any size: sequences of limbs, least significant
\* first, without leading zero limbs (zero is the empty sequence).
\* ------------------------------------------------------------------------
RECURSIVE Pow2(_)
Pow2(n) == IF n = 0 THEN 1 ELSE 2 * Pow2(n - 1)

LimbBits == 14

Base == Pow2(LimbBits)

MantBits == 53

RECURSIVE BNorm(_)
BNorm(a) ==
    IF a = <<>> THEN a
    ELSE IF a[Len(a)] = 0 THEN BNorm(SubSeq(a, 1, Len(a) - 1))
    ELSE a

RECURSIVE BFromNat(_)
BFromNat(n) == IF n = 0 THEN <<>> ELSE <<n % Base>> \o BFromNat(n \div Base)

RECURSIVE BToNat(_)
BToNat(a) == IF a = <<>> THEN 0 ELSE a[1] + Base * BToNat(Tail(a))

BLimb(a, i) == IF i <= Len(a) THEN a[i] ELSE 0

BRest(a) == IF a = <<>> THEN a ELSE Tail(a)

RECURSIVE BAddC(_, _, _)
BAddC(a, b, c) ==
    IF a = <<>> /\ b = <<>> THEN (IF c = 0 THEN <<>> ELSE <<c>>)
    ELSE LET s == BLimb(a, 1) + BLimb(b, 1) + c
         IN  <<s % Base>> \o BAddC(BRest(a), BRest(b), s \div Base)

BAdd(a, b) == BAddC(a, b, 0)

\* a - b - c for a >= b + c, before the leading zeros are dropped
RECURSIVE BSubC(_, _, _)
BSubC(a, b, c) ==
    IF a = <<>> THEN <<>>
    ELSE LET d == a[1] - BLimb(b, 1) - c
         IN  IF d < 0 THEN <<d + Base>> \o BSubC(Tail(a), BRest(b), 1)
             ELSE <<d>> \o BSubC(Tail(a), BRest(b), 0)

BSub(a, b) == BNorm(BSubC(a, b, 0))

\* -1, 0, 1 as a < b, a = b, a > b
RECURSIVE BCmpFrom(_, _, _)
BCmpFrom(a, b, i) ==
    IF i = 0 THEN 0
    ELSE IF a[i] < b[i] THEN -1
    ELSE IF a[i] > b[i] THEN 1
    ELSE BCmpFrom(a, b, i - 1)

BCmp(a, b) ==
    IF Len(a) < Len(b) THEN -1
    ELSE IF Len(a) > Len(b) THEN 1
    ELSE BCmpFrom(a, b, Len(a))

\* a * k + c for a limb k
RECURSIVE BMulSmallC(_, _, _)
BMulSmallC(a, k, c) ==
    IF a = <<>> THEN (IF c = 0 THEN <<>> ELSE <<c>>)
    ELSE LET p == a[1] * k + c
         IN  <<p % Base>> \o BMulSmallC(Tail(a), k, p \div Base)

BMulSmall(a, k) == IF k = 0 THEN <<>> ELSE BMulSmallC(a, k, 0)

RECURSIVE BMul(_, _)
BMul(a, b) ==
    IF a = <<>> \/ b = <<>> THEN <<>>
    ELSE LET hi == BMul(a, Tail(b))
         IN  BAdd(BMulSmall(a, b[1]), IF hi = <<>> THEN <<>> ELSE <<0>> \o hi)

\* floor(a / k) for a limb k > 0, from the most significant limb down
RECURSIVE BDivSmallFrom(_, _, _, _)
BDivSmallFrom(a, k, i, r) ==
    IF i = 0 THEN <<>>
    ELSE LET cur == r * Base + a[i]
         IN  BDivSmallFrom(a, k, i - 1, cur % k) \o <<cur \div k>>

BDivSmall(a, k) == BNorm(BDivSmallFrom(a, k, Len(a), 0))

RECURSIVE BZeros(_)
BZeros(n) == IF n = 0 THEN <<>> ELSE <<0>> \o BZeros(n - 1)

\* a * 2^n
BShl(a, n) ==
    IF a = <<>> THEN a
    ELSE BZeros(n \div LimbBits) \o BMulSmall(a, Pow2(n % LimbBits))

\* floor(a / 2^n)
BShr(a, n) ==
    IF n \div LimbBits >= Len(a) THEN <<>>
    ELSE BDivSmall(SubSeq(a, n \div LimbBits + 1, Len(a)), Pow2(n % LimbBits))

RECURSIVE NatBitLen(_)
NatBitLen(n) == IF n = 0 THEN 0 ELSE 1 + NatBitLen(n \div 2)

BBitLen(a) == IF a = <<>> THEN 0 ELSE LimbBits * (Len(a) - 1) + NatBitLen(a[Len(a)])

BOdd(a) == a # <<>> /\ a[1] % 2 = 1

\* ------------------------------------------------------------------------
\* Python float: IEEE-754 binary64, round-half-to-even.  Amounts stay far
\* from the overflow and subnormal ranges, which are not modelled.
\* ------------------------------------------------------------------------
FZero == [s |-> 0, m |-> <<>>, e |-> 0]

\* the element of a one-element set: {e(v) : v \in {a}} names the value of a
\* once, as v, for e
The(S) == CHOOSE v \in S : TRUE

\* q * 2^sh <= M < (q + 1) * 2^sh to the nearest, half to even; the half goes
\* up when a nonzero part lies below M (sticky)
FRoundNearest(M, q, sh, sticky) ==
    The({ IF c > 0 \/ (c = 0 /\ (sticky \/ BOdd(q))) THEN BAdd(q, <<1>>) ELSE q :
          c \in {BCmp(BSub(M, BShl(q, sh)), BShl(<<1>>, sh - 1))} })

\* s * M0 * 2^E (plus a nonzero part below the last bit of M0 when sticky,
\* only passed with M0 longer than 53 bits) rounded to 53 significant bits
FRound(s, M0, E, sticky) ==
    The({ IF L = 0 THEN FZero
          ELSE IF L <= MantBits
          THEN [s |-> s, m |-> BShl(M, MantBits - L), e |-> E - (MantBits - L)]
          ELSE The({ IF BBitLen(q2) > MantBits
                     THEN [s |-> s, m |-> BShr(q2, 1), e |-> E + (L - MantBits) + 1]
                     ELSE [s |-> s, m |-> q2, e |-> E + (L - MantBits)] :
                     q2 \in {FRoundNearest(M, BShr(M, L - MantBits), L - MantBits, sticky)} }) :
          M \in {M0}, L \in {BBitLen(M0)} })

\* float(n) of an integer below 2^31
FFromInt(n) ==
    IF n = 0 THEN FZero
    ELSE IF n < 0 THEN FRound(-1, BFromNat(-n), 0, FALSE)
    ELSE FRound(1, BFromNat(n), 0, FALSE)

FNeg(x) == [x EXCEPT !.s = -@]

\* comparison of magnitudes: -1, 0, 1
FCmpAbs(x, y) ==
    IF x.s = 0 THEN (IF y.s = 0 THEN 0 ELSE -1)
    ELSE IF y.s = 0 THEN 1
    ELSE IF x.e < y.e THEN -1
    ELSE IF x.e > y.e THEN 1
    ELSE BCmp(x.m, y.m)

\* a < b
FLt(a, b) ==
    \E x \in {a}, y \in {b} :
        IF x.s # y.s THEN x.s < y.s
        ELSE IF x.s = 1 THEN FCmpAbs(x, y) < 0
        ELSE IF x.s = -1 THEN FCmpAbs(x, y) > 0
        ELSE FALSE

\* a > b
FGt(a, b) == FLt(b, a)

\* a >= b
FGe(a, b) == ~FLt(a, b)

\* the sum of x and y, both nonzero, with their mantissas X and Y aligned at
\* the exponent lo
FAddAligned(x, y, X, Y, lo) ==
    IF x.s = y.s THEN FRound(x.s, BAdd(X, Y), lo, FALSE)
    ELSE The({ IF c = 0 THEN FZero
               ELSE IF c > 0 THEN FRound(x.s, BSub(X, Y), lo, FALSE)
               ELSE FRound(y.s, BSub(Y, X), lo, FALSE) :
               c \in {BCmp(X, Y)} })

\* a + b
FAdd(a, b) ==
    The({ IF x.s = 0 THEN y
          ELSE IF y.s = 0 THEN x
          ELSE The({ The({ FAddAligned(x, y, X, Y, lo) :
                           X \in {BShl(x.m, x.e - lo)}, Y \in {BShl(y.m, y.e - lo)} }) :
                     lo \in {IF x.e < y.e THEN x.e ELSE y.e} }) :
          x \in {a}, y \in {b} })

\* a - b
FSub(a, b) == FAdd(a, FNeg(b))

\* a * b
FMul(a, b) ==
    The({ IF x.s = 0 \/ y.s = 0 THEN FZero
          ELSE FRound(x.s * y.s, BMul(x.m, y.m), x.e + y.e, FALSE) :
          x \in {a}, y \in {b} })

\* the largest limb k in lo..hi with k * d <= n, by bisection
RECURSIVE FDivDigit(_, _, _, _)
FDivDigit(n, d, lo, hi) ==
    IF lo >= hi THEN lo
    ELSE The({ IF BCmp(BMulSmall(d, mid), n) <= 0
               THEN FDivDigit(n, d, mid, hi)
               ELSE FDivDigit(n, d, lo, mid - 1) :
               mid \in {(lo + hi + 1) \div 2} })

\* long division of r * Base^n by d for r < d, one limb of the quotient per
\* step: <<q * Base^n + quotient, remainder>>
RECURSIVE FDivLoop(_, _, _, _)
FDivLoop(r, d, q, n) ==
    IF n = 0 THEN <<q, r>>
    ELSE The({ The({ FDivLoop(BSub(rB, BMulSmall(d, k)), d,
                              IF q = <<>> /\ k = 0 THEN q ELSE <<k>> \o q, n - 1) :
                     k \in {FDivDigit(rB, d, 0, Base - 1)} }) :
               rB \in {IF r = <<>> THEN r ELSE <<0>> \o r} })

\* limbs of quotient computed below the leading bit: at least MantBits + 2 bits
QuotLimbs == (MantBits + 2) \div LimbBits + 1

\* a / b for b # 0 (Python raises ZeroDivisionError for b = 0)
FDiv(a, b) ==
    The({ IF x.s = 0 THEN FZero
          ELSE The({ FRound(x.s * y.s, qr[1], x.e - y.e - QuotLimbs * LimbBits,
                            qr[2] # <<>>) :
                     qr \in {IF BCmp(x.m, y.m) >= 0
                             THEN FDivLoop(BSub(x.m, y.m), y.m, <<1>>, QuotLimbs)
                             ELSE FDivLoop(x.m, y.m, <<>>, QuotLimbs)} }) :
          x \in {a}, y \in {b} })

\* int(a): truncation toward zero, for |a| < 2^31
FInt(a) ==
    The({ IF x.s = 0 THEN 0
          ELSE IF x.e >= 0 THEN x.s * BToNat(BShl(x.m, x.e))
          ELSE x.s * BToNat(BShr(x.m, -x.e)) :
          x \in {a} })

\* the whole number nearest h / 2^k, half to even
BRoundShr(h, k) ==
    The({ The({ IF c > 0 \/ (c = 0 /\ BOdd(q)) THEN BAdd(q, <<1>>) ELSE q :
                c \in {BCmp(BSub(h, BShl(q, k)), BShl(<<1>>, k - 1))} }) :
          q \in {BShr(h, k)} })

\* the float nearest s * n / d for a natural n (limbs) and 0 < d < 2^7: the
\* quotient of n * 2^k by d, long enough to hold the guard bits, and the
\* remainder as the sticky bit, rounded once
FFromRatio(s, n, d) ==
    The({ The({ FRound(s, q, -k, BSub(BShl(n, k), BMulSmall(q, d)) # <<>>) :
                q \in {BDivSmall(BShl(n, k), d)} }) :
          k \in {IF BBitLen(n) >= MantBits + 9 THEN 0
                 ELSE MantBits + 9 - BBitLen(n)} })

\* round(a, 2): the decimal nearest a with two places (half to even on the
\* exact binary value), then the float nearest that decimal, rounded once
FRound2(a) ==
    The({ IF x.s = 0 THEN FZero
          ELSE The({ FFromRatio(x.s, n, 100) :
                     n \in {IF x.e >= 0 THEN BShl(BMulSmall(x.m, 100), x.e)
                            ELSE BRoundShr(BMulSmall(x.m, 100), -x.e)} }) :
          x \in {a} })

\* the next float above a > 0 (for writing inputs)
FNextUp(a) == The({ FRound(x.s, BAdd(x.m, <<1>>), x.e, FALSE) : x \in {a} })

\* ------------------------------------------------------------------------
\* Inputs
\* ------------------------------------------------------------------------
\* Bound on the number of records held by the ledger files
MaxRecords == 3

TICKERS == <<"AMZN", "TSLA">>

TickerSet == {TICKERS[i] : i \in 1..Len(TICKERS)}

Signals == {"BUY", "SELL", "HOLD"}

\* TradeManager.__init__'s default (and main's argument), and the capital of
\* the documented sizing example
DefaultCapital == 100000

InitialCapitals == {FFromInt(1000), FFromInt(DefaultCapital)}

\* 5882.352941176471 = 0x1.6fa5a5a5a5a5bp+12, the float next above 100000/17
PriceNear == FNextUp(FDiv(FFromInt(DefaultCapital), FFromInt(17)))

Prices == {FFromInt(50), FFromInt(300), PriceNear}

\* 50.1, a price that is no binary fraction
PriceDecimal == FDiv(FFromInt(501), FFromInt(10))

\* the prices execute_trade is called with where its sizing is looked at
SizingPrices == Prices \cup {PriceDecimal}

\* A date string "YYYY-MM-DD" is held as the number YYYYMMDD, which orders as
\* the string does
Dates == {20250103}

\* results/<ticker>_backtest_results.xlsx: absent, or a sheet of rows
NoFile == [state |-> "absent", rows |-> <<>>]

Sheet(rows) == [state |-> "sheet", rows |-> rows]

VARIABLES
    trader,     \* the TradeManager object in use: ticker, capital, shares,
                \* initial_capital, records
    files,      \* results/<ticker>_backtest_results.xlsx: absent, unreadable
                \* or a sheet of rows
    call,       \* the operation last performed on the ledger, with its arguments
    api_lock,           \* _api_lock: the thread holding it, or Free
    last_request_time,  \* _last_request_time
    now,                \* time.time(), in seconds
    threads,            \* each thread's place in wrapper and its locals
    requests,           \* the wrapped calls made so far, in the order they began
    main                \* backtest_runner.main: its place, its locals, what
                        \* the day's report parsed to, whether the generator
                        \* was run for the day and how it ended, whether
                        \* this is the first run or the run after it, the days
                        \* booked in this run, and the days and the ledger
                        \* files of the completed first run

ledgerVars == <<trader, files, call>>

gateVars == <<api_lock, last_request_time, now, threads, requests>>

\* ------------------------------------------------------------------------
\* TradeManager (src/trade_manager.py)
\* ------------------------------------------------------------------------
\* a record as a sheet row: a number cell holds a double whatever the Python
\* type was (written in full precision), a string cell the string
to_row(record) ==
    [record EXCEPT !.Shares_Delta = FFromInt(@), !.Shares = FFromInt(@)]

\* a sheet row as pandas reads it: a whole-number cell is read as an int, any
\* other number as the float written
from_row(row) ==
    IF {"Shares_Delta", "Shares"} \subseteq DOMAIN row
    THEN [row EXCEPT !.Shares_Delta = FInt(@), !.Shares = FInt(@)]
    ELSE IF "Shares" \in DOMAIN row
    THEN [row EXCEPT !.Shares = FInt(@)]
    ELSE row

\* DataFrame(records).to_excel: a sheet row per record, in order
RECURSIVE to_excel(_)
to_excel(records) ==
    IF records = <<>> THEN <<>>
    ELSE <<to_row(Head(records))>> \o to_excel(Tail(records))

\* the rows as pandas reads them, in order
RECURSIVE from_rows(_)
from_rows(rows) ==
    IF rows = <<>> THEN <<>>
    ELSE <<from_row(Head(rows))>> \o from_rows(Tail(rows))

\* variant: the last row is lost on reading
read_excel_short(file) == from_rows(SubSeq(file.rows, 1, Len(file.rows) - 1))

\* pd.read_excel(...) and df.to_dict('records') of a file that can be read
read_excel(file) == from_rows(file.rows)

\* a file pd.read_excel cannot read (it raises)
Unreadable == [state |-> "unreadable", rows |-> <<>>]

\* a readable sheet without rows
EmptySheet == Sheet(<<>>)

\* a sheet of one row that has a Cash column but no Shares column
NoSharesSheet ==
    Sheet(<< [Date |-> 20250102, Ticker |-> "AMZN", Cash |-> FFromInt(5000)] >>)

\* a sheet of one row that has a Shares column but no Cash column
NoCashSheet ==
    Sheet(<< [Date |-> 20250102, Ticker |-> "AMZN", Shares |-> FFromInt(7)] >>)

\* ledger files this program did not write
ForeignFiles == {Unreadable, EmptySheet, NoSharesSheet, NoCashSheet}

\* the columns of a frame with rows
columns(df) == DOMAIN df[1]

\* variant: the live state is taken from the first row
load_state_first_row(self, file) ==
    IF file = Unreadable THEN self
    ELSE The({ IF df = <<>> THEN self
               ELSE IF "Cash" \notin columns(df) THEN self
               ELSE IF "Shares" \notin columns(df)
               THEN [self EXCEPT !.capital = df[1].Cash]
               ELSE [self EXCEPT !.capital = df[1].Cash,
                                 !.shares  = df[1].Shares,
                                 !.records = df] :
               df \in {read_excel(file)} })

\* load_state: live state from the last persisted row; an exception (the file
\* cannot be read, or last_row lacks the column asked for) ends the loading
\* where it is, keeping the assignments already made
load_state(self, file) ==
    IF file = Unreadable THEN self
    ELSE The({ IF df = <<>> THEN self
               ELSE IF "Cash" \notin columns(df) THEN self
               ELSE IF "Shares" \notin columns(df)
               THEN [self EXCEPT !.capital = df[Len(df)].Cash]
               ELSE [self EXCEPT !.capital = df[Len(df)].Cash,
                                 !.shares  = df[Len(df)].Shares,
                                 !.records = df] :
               df \in {read_excel(file)} })

\* TradeManager(ticker, initial_capital) with the files as they are
TradeManager(ticker, initial_capital, fs) ==
    LET self == [ticker          |-> ticker,
                 capital         |-> initial_capital,
                 shares          |-> 0,
                 initial_capital |-> initial_capital,
                 records         |-> <<>>]
    IN  IF fs[ticker] # NoFile THEN load_state(self, fs[ticker]) ELSE self

\* available_cash = self.capital * 1
available_cash(capital) == FMul(capital, FFromInt(1))

\* variant: one share is bought when any can be
buy_shares_one(capital, open_price) ==
    IF FInt(FDiv(available_cash(capital), open_price)) > 0 THEN 1 ELSE 0

\* buy_shares = int(available_cash / open_price)
buy_shares(capital, open_price) == FInt(FDiv(available_cash(capital), open_price))

\* variant: the position is valued at the cash alone
total_value_cash_only(capital, shares, open_price) == capital

\* total_value = self.capital + (self.shares * open_price)
total_value(capital, shares, open_price) ==
    FAdd(capital, FMul(FFromInt(shares), open_price))

\* total_return, rounded to 2 places for the record
cumulative_return_pct(tv, initial_capital) ==
    FRound2(FMul(FDiv(FSub(tv, initial_capital), initial_capital), FFromInt(100)))

\* no trade: action = "HOLD", shares_delta = 0, amount = 0
hold(capital, shares) ==
    [capital |-> capital, shares |-> shares,
     action |-> "HOLD", shares_delta |-> 0, amount |-> FZero]

\* variant: the signal is not looked at
can_buy_any_signal(signal, capital) == FGt(capital, FZero)

\* if signal == "BUY" and self.capital > 0
can_buy(signal, capital) == signal = "BUY" /\ FGt(capital, FZero)

\* variant: a SELL is carried out whatever the position
can_sell_unguarded(signal, shares) == signal = "SELL"

\* elif signal == "SELL" and self.shares > 0
can_sell(signal, shares) == signal = "SELL" /\ shares > 0

\* variant: the BUY is booked even when no whole share can be bought
buy_unchecked(capital, shares, open_price) ==
    The({ The({ [capital |-> FSub(capital, cost), shares |-> shares + bs,
                 action |-> "BUY", shares_delta |-> bs, amount |-> cost] :
                cost \in {FMul(FFromInt(bs), open_price)} }) :
          bs \in {buy_shares(capital, open_price)} })

\* variant: a fee of 1 is charged on a BUY
buy_with_fee(capital, shares, open_price) ==
    The({ IF bs > 0
          THEN The({ [capital |-> FSub(capital, cost), shares |-> shares + bs,
                      action |-> "BUY", shares_delta |-> bs, amount |-> cost] :
                     cost \in {FAdd(FMul(FFromInt(bs), open_price), FFromInt(1))} })
          ELSE hold(capital, shares) :
          bs \in {buy_shares(capital, open_price)} })

\* the BUY branch: all the cash into whole shares, if any can be bought
buy(capital, shares, open_price) ==
    The({ IF bs > 0
          THEN The({ [capital |-> FSub(capital, cost), shares |-> shares + bs,
                      action |-> "BUY", shares_delta |-> bs, amount |-> cost] :
                     cost \in {FMul(FFromInt(bs), open_price)} })
          ELSE hold(capital, shares) :
          bs \in {buy_shares(capital, open_price)} })

\* variant: one share is kept back
sell_keep_one(capital, shares, open_price) ==
    The({ [capital |-> FAdd(capital, revenue), shares |-> 1,
           action |-> "SELL", shares_delta |-> -(shares - 1), amount |-> revenue] :
          revenue \in {FMul(FFromInt(shares - 1), open_price)} })

\* the SELL branch: the whole position
sell(capital, shares, open_price) ==
    The({ [capital |-> FAdd(capital, revenue), shares |-> 0,
           action |-> "SELL", shares_delta |-> -shares, amount |-> revenue] :
          revenue \in {FMul(FFromInt(shares), open_price)} })

\* the position after the trade and what was done:
\* [capital, shares, action, shares_delta, amount]
trade(capital, shares, signal, open_price) ==
    IF can_buy(signal, capital) THEN buy(capital, shares, open_price)
    ELSE IF can_sell(signal, shares) THEN sell(capital, shares, open_price)
    ELSE hold(capital, shares)

\* the record of a trade t made for self at open_price, valued tv
trade_record(self, date, signal, open_price, t, tv) ==
    [Date                  |-> date,
     Ticker                |-> self.ticker,
     Signal                |-> signal,
     Action                |-> t.action,
     Open_Price            |-> open_price,
     Shares_Delta          |-> t.shares_delta,
     Transaction_Amount    |-> t.amount,
     Cash                  |-> t.capital,
     Shares                |-> t.shares,
     Total_Value           |-> tv,
     Cumulative_Return_Pct |-> cumulative_return_pct(tv, self.initial_capital)]

\* execute_trade up to the append: the manager after it, with the new record
\* at the tail of its records
execute_trade(self, date, signal, open_price) ==
    The({ The({ [self EXCEPT !.capital = t.capital,
                             !.shares  = t.shares,
                             !.records = Append(@, trade_record(self, date, signal, open_price, t, tv))] :
                tv \in {total_value(t.capital, t.shares, open_price)} }) :
          t \in {trade(self.capital, self.shares, signal, open_price)} })

\* save_to_excel: the file is rewritten with all the records
save_to_excel(self, fs) == [fs EXCEPT ![self.ticker] = Sheet(to_excel(self.records))]

RECURSIVE SumLen(_, _)
SumLen(fs, S) ==
    IF S = {} THEN 0
    ELSE LET t == CHOOSE x \in S : TRUE
         IN  Len(fs[t].rows) + SumLen(fs, S \ {t})

\* rows held by all the ledger files
TotalRecords(fs) == SumLen(fs, TickerSet)

\* ------------------------------------------------------------------------
\* smart_rate_limit (src/tradingagents/dataflows/alpha_vantage_news.py)
\* Threads call the wrapped functions; one module-level lock and one
\* module-level timestamp serve both.  Time is counted in whole seconds.
\* ------------------------------------------------------------------------
\* Bounds: threads, wrapper calls in a run, the clock's first reading and
\* how far it runs
NumThreads == 2

MaxCalls == 3

StartTime == 3

TimeSpan == 4

\* wait_time = 2 - elapsed_time
MinInterval == 2

Threads == 1..NumThreads

Funcs == {"get_news", "get_insider_transactions"}

\* what a wrapped function does: returns a value or raises an error
Outcomes == {[kind |-> "return", value |-> "data"],
             [kind |-> "raise", value |-> "RateLimitError"]}

Free == 0

NoOutcome == [kind |-> "none", value |-> "none"]

\* a thread outside wrapper; the locals hold 0 while they are not in use
IdleThread ==
    [pc |-> "idle", func |-> "none", current_time |-> 0, wait_time |-> 0,
     wake |-> 0, outcome |-> NoOutcome, seen |-> NoOutcome]

GateInit ==
    /\ api_lock = Free
    /\ last_request_time = 0
    /\ now = StartTime
    /\ threads = [t \in Threads |-> IdleThread]
    /\ requests = <<>>

\* variant: the lock is taken whoever holds it
lock_ignored(lock) == TRUE

\* with _api_lock: the lock can be taken when no thread holds it
lock_available(lock) == lock = Free

\* variant: the cooldown is never applied
wait_time_none(current_time, last) == 0

\* elapsed_time = current_time - _last_request_time; wait_time = 2 - elapsed_time
wait_time(current_time, last) == MinInterval - (current_time - last)

\* variant: an error of the wrapped function is swallowed
propagate_swallow(outcome) ==
    IF outcome.kind = "raise" THEN [kind |-> "return", value |-> "none"] ELSE outcome

\* what the caller of wrapper gets: return result, or the error leaving the
\* try/finally and the with block unchanged
propagate(outcome) == outcome

\* variant: the lock is released by hand after the call, and an error leaves
\* it held
lock_after_exit_held_on_raise(t, outcome) ==
    IF outcome.kind = "raise" THEN t ELSE Free

\* the lock when the with block is left, by return or by an error
lock_after_exit(t, outcome) == Free

\* a thread calls a wrapped function
Enter(t, f) ==
    /\ threads[t].pc = "idle"
    /\ Len(requests) + Cardinality({u \in Threads : threads[u].pc \in {"lock", "time", "wait", "sleep", "run"}}) < MaxCalls
    /\ threads' = [threads EXCEPT ![t] = [IdleThread EXCEPT !.pc = "lock", !.func = f]]
    /\ UNCHANGED <<api_lock, last_request_time, now, requests>>
    /\ UNCHANGED <<ledgerVars, main>>

\* with _api_lock: (entry)
Acquire(t) ==
    /\ threads[t].pc = "lock"
    /\ lock_available(api_lock)
    /\ api_lock' = t
    /\ threads' = [threads EXCEPT ![t].pc = "time"]
    /\ UNCHANGED <<last_request_time, now, requests>>
    /\ UNCHANGED <<ledgerVars, main>>

\* current_time = time.time(); elapsed_time; wait_time
ReadTime(t) ==
    /\ threads[t].pc = "time"
    /\ threads' = [threads EXCEPT ![t].current_time = now,
                                  ![t].wait_time = wait_time(now, last_request_time),
                                  ![t].pc = "wait"]
    /\ UNCHANGED <<api_lock, last_request_time, now, requests>>
    /\ UNCHANGED <<ledgerVars, main>>

\* if wait_time > 0: time.sleep(wait_time) begins
Wait(t) ==
    /\ threads[t].pc = "wait"
    /\ threads' = [threads EXCEPT
                     ![t].pc = IF threads[t].wait_time > 0 THEN "sleep" ELSE "run",
                     ![t].wake = IF threads[t].wait_time > 0
                                 THEN now + threads[t].wait_time ELSE 0,
                     ![t].current_time = 0,
                     ![t].wait_time = 0]
    /\ UNCHANGED <<api_lock, last_request_time, now, requests>>
    /\ UNCHANGED <<ledgerVars, main>>

\* time.sleep returns, no sooner than asked
Wake(t) ==
    /\ threads[t].pc = "sleep"
    /\ now >= threads[t].wake
    /\ threads' = [threads EXCEPT ![t].pc = "run", ![t].wake = 0]
    /\ UNCHANGED <<api_lock, last_request_time, now, requests>>
    /\ UNCHANGED <<ledgerVars, main>>

\* result = func(*args, **kwargs) begins
CallStart(t) ==
    /\ threads[t].pc = "run"
    /\ threads' = [threads EXCEPT ![t].pc = "func"]
    /\ requests' = Append(requests, [thread |-> t, func |-> threads[t].func,
                                     start |-> now, end |-> -1, outcome |-> NoOutcome])
    /\ UNCHANGED <<api_lock, last_request_time, now>>
    /\ UNCHANGED <<ledgerVars, main>>

\* func returns or raises
CallEnd(t, o) ==
    /\ threads[t].pc = "func"
    /\ threads' = [threads EXCEPT ![t].pc = "finally", ![t].outcome = o]
    /\ UNCHANGED <<api_lock, last_request_time, now, requests>>
    /\ UNCHANGED <<ledgerVars, main>>

\* finally: _last_request_time = time.time()
Finally(t) ==
    /\ threads[t].pc = "finally"
    /\ last_request_time' = now
    /\ threads' = [threads EXCEPT ![t].pc = "exit"]
    /\ requests' = [requests EXCEPT ![Len(requests)].end = now,
                                    ![Len(requests)].outcome = threads[t].outcome]
    /\ UNCHANGED <<api_lock, now>>
    /\ UNCHANGED <<ledgerVars, main>>

\* the with block is left: the lock is released and the caller gets the
\* result or the error
Release(t) ==
    /\ threads[t].pc = "exit"
    /\ api_lock' = lock_after_exit(t, threads[t].outcome)
    /\ threads' = [threads EXCEPT ![t].pc = "idle",
                                  ![t].func = "none",
                                  ![t].outcome = NoOutcome,
                                  ![t].seen = propagate(threads[t].outcome)]
    /\ UNCHANGED <<last_request_time, now, requests>>
    /\ UNCHANGED <<ledgerVars, main>>

\* a second passes
Tick ==
    /\ now < StartTime + TimeSpan
    /\ now' = now + 1
    /\ UNCHANGED <<api_lock, last_request_time, threads, requests>>
    /\ UNCHANGED <<ledgerVars, main>>

\* Bound on the wrapped calls made where progress is looked at
MaxLiveCalls == 2

\* the wrapped function called where progress is looked at (the gate does
\* not look at which function it wraps)
LiveFuncs == {"get_news"}

\* a thread calls a wrapped function, while calls are left to make
EnterLive(t, f) ==
    /\ Len(requests) + Cardinality({u \in Threads : threads[u].pc \in {"lock", "time", "wait", "sleep", "run"}}) < MaxLiveCalls
    /\ Enter(t, f)

\* Bound on the seconds the clock is followed where progress is looked at
LiveSpan == 2

\* a second passes on the wall clock, whatever the threads do; past the span
\* looked at, the clock is followed only until the sleeps begun have ended
Elapse ==
    /\ \/ now < StartTime + LiveSpan
       \/ \E t \in Threads : threads[t].pc = "sleep" /\ now < threads[t].wake
    /\ now' = now + 1
    /\ UNCHANGED <<api_lock, last_request_time, threads, requests>>
    /\ UNCHANGED <<ledgerVars, main>>

GateNext ==
    \/ \E t \in Threads, f \in Funcs : Enter(t, f)
    \/ \E t \in Threads : Acquire(t)
    \/ \E t \in Threads : ReadTime(t)
    \/ \E t \in Threads : Wait(t)
    \/ \E t \in Threads : Wake(t)
    \/ \E t \in Threads : CallStart(t)
    \/ \E t \in Threads, o \in Outcomes : CallEnd(t, o)
    \/ \E t \in Threads : Finally(t)
    \/ \E t \in Threads : Release(t)
    \/ Tick

\* ------------------------------------------------------------------------
\* The ledger of one ticker used directly: the manager is constructed (again,
\* from the file it wrote) and execute_trade is called with any date, signal
\* and price
\* ------------------------------------------------------------------------
LedgerInit ==
    /\ files = [t \in TickerSet |-> NoFile]
    /\ \E ic \in InitialCapitals : trader = TradeManager(TICKERS[1], ic, files)
    /\ call = [op |-> "TradeManager", ticker |-> TICKERS[1]]

\* trader = TradeManager(ticker, initial_capital), with the initial capital
\* the run is configured with
NewManager(ticker) ==
    /\ trader' = TradeManager(ticker, trader.initial_capital, files)
    /\ call' = [op |-> "TradeManager", ticker |-> ticker]
    /\ UNCHANGED files
    /\ UNCHANGED <<gateVars, main>>

\* trader.execute_trade(date, signal, open_price)
ExecuteTrade(date, signal, open_price) ==
    /\ TotalRecords(files) < MaxRecords
    /\ trader' = execute_trade(trader, date, signal, open_price)
    /\ files' = save_to_excel(trader', files)
    /\ call' = [op |-> "execute_trade", date |-> date, signal |-> signal,
                open_price |-> open_price]
    /\ UNCHANGED <<gateVars, main>>

\* before the program has written the ledger, a file is put in its place
\* from outside
PlaceFile(ticker, file) ==
    /\ files[ticker] = NoFile
    /\ files' = [files EXCEPT ![ticker] = file]
    /\ call' = [op |-> "place_file", ticker |-> ticker]
    /\ UNCHANGED trader
    /\ UNCHANGED <<gateVars, main>>

\* execute_trade called on one manager, at the sizing prices
SizingNext ==
    \E d \in Dates, sg \in Signals, pr \in SizingPrices : ExecuteTrade(d, sg, pr)

LedgerNext ==
    \/ \E f \in ForeignFiles : PlaceFile(TICKERS[1], f)
    \/ NewManager(TICKERS[1])
    \/ \E d \in Dates, sg \in Signals, pr \in Prices : ExecuteTrade(d, sg, pr)

\* ------------------------------------------------------------------------
\* The ledger with the process liable to be terminated: save_to_excel writes
\* the file in place (df.to_excel(self.file_path)), so between the opening of
\* the file for writing and the end of the write the file is not a readable
\* workbook
\* ------------------------------------------------------------------------
\* execute_trade up to the point where to_excel has opened the file
BeginTrade(date, signal, open_price) ==
    /\ call.op \notin {"save_to_excel", "terminated"}
    /\ Len(trader.records) < MaxRecords
    /\ trader' = execute_trade(trader, date, signal, open_price)
    /\ files' = [files EXCEPT ![trader.ticker] = Unreadable]
    /\ call' = [op |-> "save_to_excel", date |-> date, signal |-> signal,
                open_price |-> open_price]
    /\ UNCHANGED <<gateVars, main>>

\* to_excel completes and execute_trade returns
FinishSave ==
    /\ call.op = "save_to_excel"
    /\ files' = save_to_excel(trader, files)
    /\ call' = [call EXCEPT !.op = "execute_trade"]
    /\ UNCHANGED trader
    /\ UNCHANGED <<gateVars, main>>

\* the process is terminated; trader keeps what the memory held at that moment
Terminate ==
    /\ call.op # "terminated"
    /\ call' = [op |-> "terminated", ticker |-> trader.ticker]
    /\ UNCHANGED <<trader, files>>
    /\ UNCHANGED <<gateVars, main>>

\* the program is started again and constructs its manager from the file
Restart ==
    /\ call.op = "terminated"
    /\ trader' = TradeManager(trader.ticker, trader.initial_capital, files)
    /\ call' = [op |-> "TradeManager", ticker |-> trader.ticker]
    /\ UNCHANGED files
    /\ UNCHANGED <<gateVars, main>>

CrashNext ==
    \/ \E d \in Dates, sg \in Signals, pr \in Prices : BeginTrade(d, sg, pr)
    \/ FinishSave
    \/ Terminate
    \/ Restart

\* ------------------------------------------------------------------------
\* main (src/backtest_runner.py): for each ticker a manager is constructed
\* from the ledger file, the market data is fetched, and each target day's
\* signal is resolved and booked at the next bar.  The program is run, and
\* after it has completed it is run once more.
\* ------------------------------------------------------------------------
START_DATE == 20250101

END_DATE == 20251231

\* pd.Timestamp of a calendar day
Timestamp(year, month, day) == [year |-> year, month |-> month, day |-> day]

\* pd.Timestamp(analysis_date)
to_timestamp(date_str) ==
    Timestamp(date_str \div 10000, (date_str \div 100) % 100, date_str % 100)

\* ts.strftime('%Y-%m-%d')
strftime(ts) == ts.year * 10000 + ts.month * 100 + ts.day

\* the bars yf.download returns for the ticker from START_DATE to ten days
\* after END_DATE: AMZN has a bar after END_DATE, TSLA ends on END_DATE
MarketData(ticker) ==
    IF ticker = "AMZN"
    THEN << [index |-> Timestamp(2025, 12, 30), Close |-> FFromInt(50)],
            [index |-> Timestamp(2025, 12, 31), Close |-> FFromInt(300)],
            [index |-> Timestamp(2026, 1, 2),   Close |-> FFromInt(50)] >>
    ELSE << [index |-> Timestamp(2025, 12, 30), Close |-> FFromInt(300)],
            [index |-> Timestamp(2025, 12, 31), Close |-> PriceNear] >>

RECURSIVE lower_case_columns(_)
\* the same bars in a frame whose price column is named 'close'
lower_case_columns(frame) ==
    IF frame = <<>> THEN <<>>
    ELSE <<[index |-> Head(frame).index, close |-> Head(frame).Close]>>
         \o lower_case_columns(Tail(frame))

RECURSIVE no_price_column(_)
\* the same bars in a frame that has neither a 'Close' nor a 'close' column
no_price_column(frame) ==
    IF frame = <<>> THEN <<>>
    ELSE <<[index |-> Head(frame).index]>> \o no_price_column(Tail(frame))

\* get_market_data: the frame yf.download returns (its price column named
\* 'Close', or 'close', or missing), or an empty frame when the download fails
get_market_data(ticker) ==
    {MarketData(ticker), lower_case_columns(MarketData(ticker)),
     no_price_column(MarketData(ticker)), <<>>}

\* trading_days = market_data.index.strftime('%Y-%m-%d').tolist()
trading_days(market_data) ==
    [i \in 1..Len(market_data) |-> strftime(market_data[i].index)]

\* target_days = [d for d in trading_days if START_DATE <= d <= END_DATE]
target_days(market_data) ==
    SelectSeq(trading_days(market_data), LAMBDA d : START_DATE <= d /\ d <= END_DATE)

\* ts_analysis_date in market_data.index
in_index(market_data, ts) == \E i \in 1..Len(market_data) : market_data[i].index = ts

\* market_data.index.get_loc(ts), counted from 0
get_loc(market_data, ts) ==
    (CHOOSE i \in 1..Len(market_data) : market_data[i].index = ts) - 1

\* variant: the location is taken as counted from 1
iloc_from_one(market_data, loc) == market_data[loc]

\* market_data.iloc[loc], loc counted from 0
iloc(market_data, loc) == market_data[loc + 1]

\* neither market_data.iloc[loc]['Close'] nor ...['close'] raises KeyError
has_price(bar) == "Close" \in DOMAIN bar \/ "close" \in DOMAIN bar

\* try: float(market_data.iloc[next_loc]['Close'])
\* except KeyError: float(market_data.iloc[next_loc]['close'])
price(bar) == IF "Close" \in DOMAIN bar THEN bar.Close ELSE bar.close

\* report_path after a failed read
NonePath == "None"

\* Path("results") / ticker / analysis_date / "reports" / "final_trade_decision.md"
ReportPath(ticker, analysis_date) == <<"results", ticker, analysis_date, "reports", "final_trade_decision.md">>

\* what reading and parsing the report gives: a signal, or an error
ReadOutcomes == Signals \cup {"error"}

\* what run_analysis_execution gives: a signal, or an error
GeneratorOutcomes == Signals \cup {"error"}

MainInit ==
    main = [pc |-> "ticker", run |-> "first", ticker_idx |-> 1,
            market_data |-> <<>>, target_days |-> <<>>, idx |-> 1,
            next_date_str |-> 0, next_open |-> FZero,
            signal |-> "HOLD", report_path |-> NonePath, report_exists |-> FALSE,
            report_exists_after |-> FALSE,
            parsed |-> "none", generated |-> "no",
            days |-> <<>>, first_days |-> <<>>,
            first_ledger |-> [t \in TickerSet |-> NoFile]]

\* the locals of one day, as they are before the day is prepared (they keep
\* the values of the day before until then)
DayLocals(m) ==
    [m EXCEPT !.next_date_str = 0, !.next_open = FZero, !.signal = "HOLD",
              !.report_path = NonePath, !.report_exists = FALSE,
              !.report_exists_after = FALSE,
              !.parsed = "none", !.generated = "no"]

\* the for loop goes on to the next ticker
next_ticker(m) ==
    [DayLocals(m) EXCEPT !.pc = "ticker", !.ticker_idx = @ + 1,
                         !.market_data = <<>>, !.target_days = <<>>, !.idx = 1]

\* for ticker in TICKERS: the manager is constructed (reading the ledger
\* file), the market data fetched and the target days listed; an empty frame
\* skips the ticker
StartTicker(market_data) ==
    /\ main.pc = "ticker"
    /\ main.ticker_idx <= Len(TICKERS)
    /\ market_data \in get_market_data(TICKERS[main.ticker_idx])
    /\ trader' = TradeManager(TICKERS[main.ticker_idx], FFromInt(DefaultCapital), files)
    /\ call' = [op |-> "TradeManager", ticker |-> TICKERS[main.ticker_idx]]
    /\ main' = IF market_data = <<>>
               THEN next_ticker(main)
               ELSE [main EXCEPT !.pc = "day", !.market_data = market_data,
                                 !.target_days = target_days(market_data),
                                 !.idx = 1]
    /\ UNCHANGED files
    /\ UNCHANGED gateVars

\* the loop over TICKERS is exhausted: main returns
Finish ==
    /\ main.pc = "ticker"
    /\ main.ticker_idx > Len(TICKERS)
    /\ main' = [main EXCEPT !.pc = "done",
                            !.first_days = IF main.run = "first" THEN main.days ELSE @,
                            !.first_ledger = IF main.run = "first" THEN files ELSE @]
    /\ UNCHANGED ledgerVars
    /\ UNCHANGED gateVars

\* variant: at the end of the data only the day is skipped
end_of_series_skip_day(m) == [m EXCEPT !.idx = @ + 1]

\* if next_loc >= len(market_data): break
end_of_series(m) == next_ticker(m)

\* for idx, analysis_date in enumerate(target_days): the T+1 bar is looked up
\* (the skip of dates already recorded is commented out); at the end of the
\* data the loop is left; when the bar has no price under either column name
\* the KeyError is caught and the loop goes on with the next day
PrepareDay ==
    /\ main.pc = "day"
    /\ main' =
         IF main.idx > Len(main.target_days)
         THEN next_ticker(main)
         ELSE LET analysis_date == main.target_days[main.idx]
                  ts_analysis_date == to_timestamp(analysis_date)
              IN  IF ~in_index(main.market_data, ts_analysis_date)
                  THEN [DayLocals(main) EXCEPT !.idx = @ + 1]
                  ELSE LET current_loc == get_loc(main.market_data, ts_analysis_date)
                           next_loc == current_loc + 1
                       IN  IF next_loc >= Len(main.market_data)
                           THEN end_of_series(main)
                           ELSE IF ~has_price(iloc(main.market_data, next_loc))
                           THEN [DayLocals(main) EXCEPT !.idx = @ + 1]
                           ELSE [DayLocals(main) EXCEPT
                                   !.pc = "report",
                                   !.next_date_str = strftime(iloc(main.market_data, next_loc).index),
                                   !.next_open = price(iloc(main.market_data, next_loc)),
                                   !.signal = "HOLD",
                                   !.report_path = ReportPath(TICKERS[main.ticker_idx], analysis_date)]
    /\ UNCHANGED ledgerVars
    /\ UNCHANGED gateVars

\* if report_path.exists(): the report is read and parsed; when that fails
\* report_path is set to None
ReadReport(exists, outcome) ==
    /\ main.pc = "report"
    /\ main' = IF ~exists
               THEN [main EXCEPT !.pc = "generate", !.report_exists = FALSE]
               ELSE IF outcome = "error"
               THEN [main EXCEPT !.pc = "generate", !.report_exists = TRUE,
                                 !.report_path = NonePath]
               ELSE [main EXCEPT !.pc = "generate", !.report_exists = TRUE,
                                 !.signal = outcome, !.parsed = outcome]
    /\ UNCHANGED ledgerVars
    /\ UNCHANGED gateVars

\* variant: the generator is run whether or not the report exists
needs_generation_always(exists) == TRUE

\* if not report_path.exists(): the file system is asked again
needs_generation(exists) == ~exists

\* variant: the generator's error is taken as the signal
generated_signal_raw(outcome) == outcome

\* signal = run_analysis_execution(selections), or "HOLD" when it raises
generated_signal(outcome) == IF outcome = "error" THEN "HOLD" ELSE outcome

\* if not report_path.exists(): None has no exists(), so after a failed read
\* the AttributeError leaves main; otherwise the file system is asked a second
\* time (exists), whatever it answered the first time: with no report now the
\* generator is run, and its failure gives HOLD; with a report now the signal
\* stays what it is (the parsed one, or the HOLD it was set to when there was
\* no report to read)
Generate(exists, outcome) ==
    /\ main.pc = "generate"
    /\ main' = IF main.report_path = NonePath
               THEN [main EXCEPT !.pc = "aborted"]
               ELSE IF needs_generation(exists)
               THEN [main EXCEPT !.pc = "trade",
                                 !.report_exists_after = exists,
                                 !.signal = generated_signal(outcome),
                                 !.generated = IF outcome = "error" THEN "raised"
                                               ELSE "returned"]
               ELSE [main EXCEPT !.pc = "trade", !.report_exists_after = exists]
    /\ UNCHANGED ledgerVars
    /\ UNCHANGED gateVars

\* trader.execute_trade(date=next_date_str, signal=signal, open_price=next_open)
Book ==
    /\ main.pc = "trade"
    /\ trader' = execute_trade(trader, main.next_date_str, main.signal, main.next_open)
    /\ files' = save_to_excel(trader', files)
    /\ call' = [op |-> "execute_trade", date |-> main.next_date_str,
                signal |-> main.signal, open_price |-> main.next_open]
    /\ main' = [main EXCEPT
                  !.pc = "day", !.idx = @ + 1,
                  !.days = Append(@, <<TICKERS[main.ticker_idx], main.target_days[main.idx]>>)]
    /\ UNCHANGED gateVars

\* how save_to_excel can fail: before the file is opened for writing (the
\* directory cannot be made, the file is locked), or with the write begun
SaveFailures == {"not_opened", "not_finished"}

\* the ledger files after save_to_excel has raised
failed_save(self, fs, how) ==
    IF how = "not_opened" THEN fs ELSE [fs EXCEPT ![self.ticker] = Unreadable]

\* execute_trade up to self.save_to_excel(): capital, shares and records
\* already hold the day's trade when the save raises
before_failed_save(self, date, signal, open_price) ==
    execute_trade(self, date, signal, open_price)

\* trader.execute_trade(...) raises in save_to_excel; main's except prints
\* and the loop goes on
BookFails(how) ==
    /\ main.pc = "trade"
    /\ trader' = before_failed_save(trader, main.next_date_str, main.signal, main.next_open)
    /\ files' = failed_save(trader, files, how)
    /\ call' = [op |-> "execute_trade_raised", date |-> main.next_date_str,
                signal |-> main.signal, open_price |-> main.next_open]
    /\ main' = [main EXCEPT
                  !.pc = "day", !.idx = @ + 1,
                  !.days = Append(@, <<TICKERS[main.ticker_idx], main.target_days[main.idx]>>)]
    /\ UNCHANGED gateVars

\* the program, having completed, is started again
Rerun ==
    /\ main.pc = "done"
    /\ main.run = "first"
    /\ main' = [main EXCEPT !.pc = "ticker", !.run = "rerun", !.ticker_idx = 1,
                            !.days = <<>>]
    /\ UNCHANGED ledgerVars
    /\ UNCHANGED gateVars

MainNext ==
    \/ \E md \in UNION {get_market_data(t) : t \in TickerSet} : StartTicker(md)
    \/ Finish
    \/ PrepareDay
    \/ \E exists \in BOOLEAN, o \in ReadOutcomes : ReadReport(exists, o)
    \/ \E exists \in BOOLEAN, o \in GeneratorOutcomes : Generate(exists, o)
    \/ Book
    \/ Rerun

\* one run of main in which persisting may fail
FaultsNext ==
    \/ \E md \in UNION {get_market_data(t) : t \in TickerSet} : StartTicker(md)
    \/ Finish
    \/ PrepareDay
    \/ \E exists \in BOOLEAN, o \in ReadOutcomes : ReadReport(exists, o)
    \/ \E exists \in BOOLEAN, o \in GeneratorOutcomes : Generate(exists, o)
    \/ Book
    \/ \E how \in SaveFailures : BookFails(how)

vars == <<trader, files, call, api_lock, last_request_time, now, threads, requests, main>>

\* the state after the modules are imported and a manager is constructed
Init ==
    /\ LedgerInit
    /\ GateInit
    /\ MainInit

SpecLedger == Init /\ [][LedgerNext]_vars

\* the gate alone, the ledger untouched
SpecThrottle == Init /\ [][GateNext]_vars

\* the gate with threads that go on: the clock goes on, a thread that can
\* take a step takes it, a wrapped call returns or raises, and a thread
\* waiting for the lock gets it when it is free again and again
GateLiveNext ==
    \/ \E t \in Threads, f \in LiveFuncs : EnterLive(t, f)
    \/ \E t \in Threads : Acquire(t)
    \/ \E t \in Threads : ReadTime(t)
    \/ \E t \in Threads : Wait(t)
    \/ \E t \in Threads : Wake(t)
    \/ \E t \in Threads : CallStart(t)
    \/ \E t \in Threads, o \in Outcomes : CallEnd(t, o)
    \/ \E t \in Threads : Finally(t)
    \/ \E t \in Threads : Release(t)
    \/ Elapse

GateFairness ==
    /\ WF_vars(Elapse)
    /\ \A t \in Threads :
          /\ SF_vars(Acquire(t))
          /\ WF_vars(ReadTime(t))
          /\ WF_vars(Wait(t))
          /\ WF_vars(Wake(t))
          /\ WF_vars(CallStart(t))
          /\ WF_vars(\E o \in Outcomes : CallEnd(t, o))
          /\ WF_vars(Finally(t))
          /\ WF_vars(Release(t))

SpecThrottleLive == Init /\ [][GateLiveNext]_vars /\ GateFairness

\* the ledger under termination of the process
SpecCrash == Init /\ [][CrashNext]_vars

\* one run of the orchestrator with failing persists
SpecFaults == Init /\ [][FaultsNext]_vars

\* execute_trade alone, at the sizing prices
SpecSizing == Init /\ [][SizingNext]_vars

\* the orchestrator run, and run again
SpecMain == Init /\ [][MainNext]_vars

\* ------------------------------------------------------------------------
\* Records and steps the properties speak of
\* ------------------------------------------------------------------------
LastRecord == trader.records[Len(trader.records)]

\* this step is a call of execute_trade
TradeStep == call'.op = "execute_trade" /\ files' # files

\* the record the step appended
NewRecord == trader'.records[Len(trader'.records)]

AllRecords ==
    {trader.records[i] : i \in 1..Len(trader.records)}
    \cup UNION {{read_excel(files[t])[i] : i \in 1..Len(files[t].rows)} : t \in {u \in TickerSet : files[u] \notin {NoFile} \cup ForeignFiles}}

\* ------------------------------------------------------------------------
\* Properties of main (SpecMain)
\* ------------------------------------------------------------------------
\* C1: when the run after a completed run has completed, having gone over
\* the same days, the ledger files are as the first run left them, and no
\* ledger file ever holds two records of one execution date
C1_IdempotentResume ==
    /\ (main.pc = "done" /\ main.run = "rerun" /\ main.days = main.first_days)
          => files = main.first_ledger
    /\ \A t \in TickerSet :
          files[t] # NoFile
          => \A i, j \in 1..Len(files[t].rows) :
                i # j => files[t].rows[i].Date # files[t].rows[j].Date

\* this step is main's call of execute_trade for the day in hand
BookStep == main.pc = "trade" /\ main'.pc = "day"

\* C15: a day whose report exists (each time the file system is asked) and
\* parses is booked with the parsed signal, and the generator is not run for
\* it
C15_CacheHit ==
    [][/\ (/\ main.pc = "generate" /\ main.report_exists /\ main.parsed # "none"
           /\ main'.report_exists_after)
            => /\ main'.pc = "trade"
               /\ main'.generated = "no"
               /\ main'.signal = main.parsed
       /\ (/\ BookStep /\ main.report_exists /\ main.parsed # "none"
           /\ main.report_exists_after)
            => /\ main.generated = "no"
               /\ call'.signal = main.parsed
               /\ NewRecord.Signal = main.parsed]_vars

C15_Witness ==
    /\ call.op = "execute_trade"
    /\ main.pc = "day" /\ main.idx = 3
    /\ main.report_exists /\ main.report_exists_after
    /\ main.parsed = "SELL" /\ main.generated = "no"
    /\ Len(trader.records) = 2
    /\ trader.records[1].Signal = "BUY" /\ trader.records[1].Action = "BUY"
    /\ LastRecord.Signal = "SELL" /\ LastRecord.Action = "SELL"

\* C16: when the day's report exists but cannot be read or parsed, the
\* generator is run for the day and the day goes on to its trade
C16_ParseFailure ==
    [][(main.pc = "generate" /\ main.report_exists /\ main.report_path = NonePath)
       => /\ main'.generated # "no"
          /\ main'.pc = "trade"]_vars

\* C17: when there is no report and the generator raises, the signal is HOLD,
\* and the day is booked as HOLD / HOLD at the T+1 date with cash and shares
\* unchanged, after which the loop is at the next day
C17_GenerationFailure ==
    [][/\ (main.pc = "generate" /\ main'.generated = "raised")
            => main'.pc = "trade" /\ main'.signal = "HOLD"
       /\ (BookStep /\ main.generated = "raised")
            => /\ ~main.report_exists_after
               /\ NewRecord.Signal = "HOLD"
               /\ NewRecord.Action = "HOLD"
               /\ NewRecord.Date = main.next_date_str
               /\ trader'.records = Append(trader.records, NewRecord)
               /\ trader'.capital = trader.capital
               /\ trader'.shares = trader.shares
               /\ main'.idx = main.idx + 1
               /\ main'.ticker_idx = main.ticker_idx]_vars

C17_Witness ==
    /\ call.op = "execute_trade" /\ call.signal = "HOLD"
    /\ main.pc = "day" /\ main.idx = 3
    /\ ~main.report_exists /\ ~main.report_exists_after
    /\ main.generated = "raised"
    /\ Len(trader.records) = 2
    /\ trader.records[1].Action = "BUY"
    /\ LastRecord.Signal = "HOLD" /\ LastRecord.Action = "HOLD"
    /\ LastRecord.Shares = 333
    /\ LastRecord.Date = 20260102

\* C19: when the analysis date is the last bar of the data, the day loop of
\* the ticker is left at once: the next ticker is up, no signal is resolved,
\* nothing is booked
C19_EndOfSeries ==
    [][(/\ main.pc = "day"
        /\ main.idx <= Len(main.target_days)
        /\ main.market_data # <<>>
        /\ to_timestamp(main.target_days[main.idx])
             = main.market_data[Len(main.market_data)].index)
       => /\ main'.pc = "ticker"
          /\ main'.ticker_idx = main.ticker_idx + 1
          /\ main'.generated = "no"
          /\ main'.days = main.days
          /\ UNCHANGED <<trader, files>>]_vars

C19_Witness ==
    /\ main.pc = "day"
    /\ TICKERS[main.ticker_idx] = "TSLA"
    /\ main.idx = 2
    /\ main.target_days[2] = 20251231
    /\ Len(main.market_data) = 2
    /\ Len(trader.records) = 1

\* C25: the record booked for an analysis date has the date of the bar that
\* comes next after the analysis date's bar in the price series, and that
\* bar's closing price (its 'Close', or its 'close' when the column is so
\* named) as its Open_Price: the bar is later than the analysis date and no
\* bar lies between the two
C25_TPlusOne ==
    [][(BookStep /\ call'.op = "execute_trade")
       => \A D \in {main.target_days[main.idx]} :
          \E k \in 1..(Len(main.market_data) - 1) :
             /\ strftime(main.market_data[k].index) = D
             /\ NewRecord.Date = strftime(main.market_data[k + 1].index)
             /\ NewRecord.Open_Price = price(main.market_data[k + 1])
             /\ NewRecord.Date > D
             /\ \A j \in 1..Len(main.market_data) :
                   ~(/\ D < strftime(main.market_data[j].index)
                     /\ strftime(main.market_data[j].index) < NewRecord.Date)]_vars

C25_Witness ==
    /\ call.op = "execute_trade"
    /\ trader.ticker = "AMZN"
    /\ main.pc = "day" /\ main.idx = 3
    /\ main.target_days[2] = 20251231
    /\ Len(trader.records) = 2
    /\ trader.records[1].Date = 20251231
    /\ trader.records[1].Open_Price = FFromInt(300)
    /\ "close" \in DOMAIN main.market_data[3]
    /\ LastRecord.Date = 20260102
    /\ LastRecord.Open_Price = FFromInt(50)

\* C21: the Date fields of the records, in the manager and in every ledger
\* file, never decrease along the sequence
C21_DateOrdering ==
    /\ \A i, j \in 1..Len(trader.records) :
          i < j => trader.records[i].Date <= trader.records[j].Date
    /\ \A t \in TickerSet :
          \A i, j \in 1..Len(files[t].rows) :
             i < j => files[t].rows[i].Date <= files[t].rows[j].Date

\* ------------------------------------------------------------------------
\* Properties of main with failing persists (SpecFaults)
\* ------------------------------------------------------------------------
\* this step is main's call of execute_trade raising in save_to_excel
FailedBookStep == BookStep /\ call'.op = "execute_trade_raised"

\* the target days of the ticker that have a bar after them
BookableDays(ticker) ==
    {target_days(MarketData(ticker))[i] :
        i \in {j \in 1..Len(target_days(MarketData(ticker))) :
                 get_loc(MarketData(ticker), to_timestamp(target_days(MarketData(ticker))[j])) + 1
                    < Len(MarketData(ticker))}}

\* C18: after a failed persist the loop is at the next day of the same
\* ticker, and the ledger is the last successfully persisted one: the manager
\* holds the cash, shares and records it held before the day, and the file is
\* as it was
C18_KeepsPersistedState ==
    [][FailedBookStep
       => /\ main'.pc = "day"
          /\ main'.idx = main.idx + 1
          /\ main'.ticker_idx = main.ticker_idx
          /\ trader'.capital = trader.capital
          /\ trader'.shares = trader.shares
          /\ trader'.records = trader.records
          /\ files' = files]_vars

\* C24: whenever main is about to process a day of a ticker, the ticker's
\* ledger file holds all the records the manager holds: there is no file and
\* no record, or the file is the sheet of the manager's records
C24_PersistBeforeAdvance ==
    (main.pc = "day" /\ main.idx <= Len(main.target_days))
    => /\ trader.ticker = TICKERS[main.ticker_idx]
       /\ \/ trader.records = <<>> /\ files[trader.ticker] = NoFile
          \/ files[trader.ticker] = Sheet(to_excel(trader.records))

\* C20: the run is never aborted, and when it has completed every ticker
\* whose data came has had every one of its days that has a T+1 bar processed
C20_FaultIsolation ==
    /\ main.pc # "aborted"
    /\ main.pc = "done"
         => \A t \in TickerSet :
               \/ \A d \in BookableDays(t) : <<t, d>> \notin {main.days[i] : i \in 1..Len(main.days)}
               \/ \A d \in BookableDays(t) : <<t, d>> \in {main.days[i] : i \in 1..Len(main.days)}

\* ------------------------------------------------------------------------
\* Properties of execute_trade (SpecLedger)
\* ------------------------------------------------------------------------
\* C2: every record, in memory or persisted, has
\* Total_Value = Cash + Shares * Open_Price in the program's arithmetic
C2_LedgerConservation ==
    \A r \in AllRecords :
        r.Total_Value = FAdd(r.Cash, FMul(FFromInt(r.Shares), r.Open_Price))

C2_Witness ==
    /\ trader.records # <<>>
    /\ LastRecord.Action = "BUY"
    /\ LastRecord.Shares > 0
    /\ FGt(LastRecord.Cash, FZero)
    /\ files[trader.ticker] = Sheet(to_excel(trader.records))

\* C3: cash (capital) >= 0 and shares >= 0 in every reachable state
C3_NonNegative == FGe(trader.capital, FZero) /\ trader.shares >= 0

\* n * open_price <= cash in exact arithmetic (no rounding), for a natural n and
\* floats open_price, cash > 0
exact_le_product(n, open_price, cash) ==
    \A lo \in {IF open_price.e < cash.e THEN open_price.e ELSE cash.e} :
       BCmp(BShl(BMul(open_price.m, BFromNat(n)), open_price.e - lo),
            BShl(cash.m, cash.e - lo)) <= 0

\* floor(cash / price) of the exact quotient: the n with
\* n * price <= cash < (n + 1) * price.  It is looked for next to the
\* program's int(cash / price), from which it differs by one at most
floor_quotient(cash, open_price) ==
    The({ CHOOSE n \in ((IF q = 0 THEN 0 ELSE q - 1)..(q + 1)) :
             /\ exact_le_product(n, open_price, cash)
             /\ ~exact_le_product(n + 1, open_price, cash) :
          q \in {FInt(FDiv(cash, open_price))} })

\* C7: a BUY with cash > 0 and floor(cash / price) >= 1 buys exactly
\* floor(cash / price) shares (the floor of the exact quotient), pays their
\* price and records it; with cash 1000 and price 300 that is 3 shares and
\* cash 100
C7_AllInBuy ==
    [][(TradeStep /\ call'.signal = "BUY" /\ FGt(trader.capital, FZero))
       => \A n \in {floor_quotient(trader.capital, call'.open_price)} :
          \A cost \in {FMul(FFromInt(n), call'.open_price)} :
             n >= 1
             => /\ trader'.capital = FSub(trader.capital, cost)
                /\ trader'.shares = trader.shares + n
                /\ NewRecord.Action = "BUY"
                /\ NewRecord.Shares_Delta = n
                /\ NewRecord.Transaction_Amount = cost
                /\ (trader.capital = FFromInt(1000) /\ call'.open_price = FFromInt(300)
                      => n = 3 /\ trader'.capital = FFromInt(100))]_vars

\* C8: a BUY with 0 < cash < price records HOLD with zero delta and zero
\* amount and leaves cash and shares unchanged
C8_DegenerateBuy ==
    [][(TradeStep /\ call'.signal = "BUY" /\ FGt(trader.capital, FZero)
          /\ FLt(trader.capital, call'.open_price))
       => /\ NewRecord.Action = "HOLD"
          /\ NewRecord.Shares_Delta = 0
          /\ NewRecord.Transaction_Amount = FZero
          /\ trader'.capital = trader.capital
          /\ trader'.shares = trader.shares
          /\ Len(trader'.records) = Len(trader.records) + 1]_vars

C8_Witness ==
    /\ call.op = "execute_trade" /\ call.signal = "BUY"
    /\ FGt(trader.capital, FZero)
    /\ FLt(trader.capital, call.open_price)
    /\ LastRecord.Action = "HOLD"
    /\ LastRecord.Cash = trader.capital

\* C9: a SELL with shares > 0 sells them all: shares become 0, cash grows by
\* shares * price, and the record says SELL, -shares, shares * price
C9_SellLiquidates ==
    [][(TradeStep /\ call'.signal = "SELL" /\ trader.shares > 0)
       => LET revenue == FMul(FFromInt(trader.shares), call'.open_price)
          IN  /\ trader'.shares = 0
              /\ trader'.capital = FAdd(trader.capital, revenue)
              /\ NewRecord.Action = "SELL"
              /\ NewRecord.Shares_Delta = -trader.shares
              /\ NewRecord.Transaction_Amount = revenue]_vars

C9_Witness ==
    /\ call.op = "execute_trade" /\ call.signal = "SELL"
    /\ LastRecord.Action = "SELL"
    /\ LastRecord.Shares_Delta < 0
    /\ trader.shares = 0

\* C10: HOLD, BUY with cash 0 and SELL with no shares record HOLD with zero
\* delta and amount, leave cash and shares unchanged, and append exactly one
\* record, dated as the call says
C10_NoOp ==
    [][(TradeStep /\ (\/ call'.signal = "HOLD"
                      \/ call'.signal = "BUY" /\ trader.capital = FZero
                      \/ call'.signal = "SELL" /\ trader.shares = 0))
       => /\ NewRecord.Action = "HOLD"
          /\ NewRecord.Shares_Delta = 0
          /\ NewRecord.Transaction_Amount = FZero
          /\ trader'.capital = trader.capital
          /\ trader'.shares = trader.shares
          /\ NewRecord.Cash = trader.capital
          /\ NewRecord.Shares = trader.shares
          /\ NewRecord.Date = call'.date
          /\ trader'.records = Append(trader.records, NewRecord)
          /\ files'[trader.ticker] = Sheet(to_excel(trader'.records))]_vars

C10_Witness ==
    /\ call.op = "execute_trade" /\ call.signal = "BUY"
    /\ Len(trader.records) >= 2
    /\ LastRecord.Action = "HOLD"
    /\ trader.capital = FZero
    /\ trader.shares > 0
    /\ trader.records[Len(trader.records) - 1].Cash = FZero
    /\ files[trader.ticker] = Sheet(to_excel(trader.records))

\* C11 as stated: the record's Action differs from its Signal only for a BUY
\* with cash zero or a SELL with no shares, and is then HOLD
C11_DiffersOnlyAtZero ==
    [][TradeStep
       => (NewRecord.Action # NewRecord.Signal
             => /\ \/ call'.signal = "BUY" /\ trader.capital = FZero
                   \/ call'.signal = "SELL" /\ trader.shares = 0
                /\ NewRecord.Action = "HOLD")]_vars

\* C11 amended: for the signals BUY, SELL and HOLD the record's Signal is the
\* signal given, and its Action is HOLD when the signal is a BUY that cannot
\* pay for one whole share (cash not above zero, or int(cash / price) = 0) or
\* a SELL with no shares; in every other case Action equals Signal
C11_ActionVsSignal ==
    [][TradeStep
       => \A degraded \in
               {\/ /\ call'.signal = "BUY"
                   /\ \/ ~FGt(trader.capital, FZero)
                      \/ FInt(FDiv(trader.capital, call'.open_price)) = 0
                \/ /\ call'.signal = "SELL"
                   /\ trader.shares = 0} :
             /\ NewRecord.Signal = call'.signal
             /\ degraded => NewRecord.Action = "HOLD"
             /\ ~degraded => NewRecord.Action = call'.signal]_vars

C11_Witness ==
    /\ call.op = "execute_trade" /\ call.signal = "BUY"
    /\ Len(trader.records) >= 2
    /\ trader.records[Len(trader.records) - 1].Action = "BUY"
    /\ LastRecord.Signal = "BUY" /\ LastRecord.Action = "HOLD"
    /\ FGt(trader.capital, FZero)
    /\ trader.shares > 0

\* C12: a manager constructed for a ticker whose ledger file was written by
\* execute_trade has the records that were written, and the Cash and Shares
\* of the last of them as its capital and shares: it equals the manager that
\* wrote the file
C12_LoadResume ==
    [][(/\ call'.op = "TradeManager"
        /\ trader.ticker = call'.ticker
        /\ trader.records # <<>>
        /\ files[call'.ticker] = Sheet(to_excel(trader.records)))
       => /\ trader'.records = trader.records
          /\ trader'.capital = LastRecord.Cash
          /\ trader'.shares = LastRecord.Shares
          /\ trader'.capital = trader.capital
          /\ trader'.shares = trader.shares
          /\ trader'.initial_capital = trader.initial_capital]_vars

C12_Witness ==
    /\ call.op = "TradeManager"
    /\ Len(trader.records) >= 2
    /\ trader.capital # trader.initial_capital
    /\ trader.capital = LastRecord.Cash
    /\ trader.shares = 17
    /\ trader.records[1].Shares_Delta = 17
    /\ read_excel(files[trader.ticker]) = trader.records

\* C13: a manager constructed when the ledger file is absent, cannot be read,
\* has no rows or lacks a column load_state asks for is in the initial state:
\* the configured capital, no shares, no records
C13_ColdOrFailedLoad ==
    [][(/\ call'.op = "TradeManager"
        /\ files[call'.ticker] \in {NoFile} \cup ForeignFiles)
       => trader' = [ticker          |-> call'.ticker,
                     capital         |-> trader.initial_capital,
                     shares          |-> 0,
                     initial_capital |-> trader.initial_capital,
                     records         |-> <<>>]]_vars

\* C22: execute_trade puts exactly one record at the tail of the records and
\* leaves the earlier ones as they were and where they were, in the manager
\* and in the ledger file; the files of other tickers are left alone, and
\* constructing a manager changes no file
C22_AppendOnly ==
    [][/\ TradeStep
            => /\ Len(trader'.records) = Len(trader.records) + 1
               /\ \A i \in 1..Len(trader.records) : trader'.records[i] = trader.records[i]
               /\ Len(files'[trader.ticker].rows) = Len(files[trader.ticker].rows) + 1
               /\ \A i \in 1..Len(files[trader.ticker].rows) :
                     files'[trader.ticker].rows[i] = files[trader.ticker].rows[i]
               /\ \A t \in TickerSet \ {trader.ticker} : files'[t] = files[t]
       /\ call'.op = "TradeManager" => files' = files]_vars

\* C23: whenever the manager has records, its capital and shares are the
\* Cash and Shares of the last of them
C23_LiveStateIsTail ==
    trader.records # <<>>
    => /\ trader.capital = LastRecord.Cash
       /\ trader.shares = LastRecord.Shares

C23_Witness ==
    /\ call.op = "TradeManager"
    /\ Len(trader.records) = 2
    /\ trader.records[1].Action = "BUY"
    /\ LastRecord.Action = "SELL"
    /\ trader.records[1].Cash # LastRecord.Cash
    /\ trader.records[1].Shares > 0
    /\ trader.shares = 0
    /\ trader.capital = LastRecord.Cash
    /\ trader.capital # trader.initial_capital

ValueBefore == FAdd(trader.capital, FMul(FFromInt(trader.shares), call'.open_price))

\* 2^-50: four units in the last place of a float in [1, 2)
RoundingSlack ==
    FMul(FDiv(FFromInt(1), FFromInt(Pow2(25))), FDiv(FFromInt(1), FFromInt(Pow2(25))))

\* C28 as stated: the Total_Value of the record of every execute_trade call
\* equals cash_before + shares_before * price
C28_ValueNeutral ==
    [][TradeStep => NewRecord.Total_Value = ValueBefore]_vars

\* C28 amended: the Total_Value of the record equals cash_before +
\* shares_before * price exactly for a call recorded as SELL or HOLD; for a
\* BUY it is (cash_before - cost) + (shares_before + n) * price in floating
\* point, which is within 2^-50 of cash_before + shares_before * price,
\* relative to it
C28_ValueNeutralRounded ==
    [][TradeStep
       => \A before \in {ValueBefore} :
             /\ NewRecord.Action \in {"SELL", "HOLD"} => NewRecord.Total_Value = before
             /\ NewRecord.Action = "BUY"
                  => /\ NewRecord.Total_Value
                          = FAdd(FSub(trader.capital, NewRecord.Transaction_Amount),
                                 FMul(FFromInt(trader.shares + NewRecord.Shares_Delta),
                                      call'.open_price))
                     /\ FCmpAbs(FSub(NewRecord.Total_Value, before),
                                FMul(before, RoundingSlack)) <= 0]_vars

C28_Witness ==
    /\ call.op = "execute_trade" /\ call.signal = "BUY"
    /\ call.open_price = PriceDecimal
    /\ Len(trader.records) = 2
    /\ trader.records[1].Action = "BUY"
    /\ trader.records[1].Cash = FFromInt(100)
    /\ trader.records[1].Shares = 333
    /\ LastRecord.Action = "BUY"
    /\ LastRecord.Shares = 334
    /\ FGt(LastRecord.Cash, FZero)
    /\ LastRecord.Total_Value
          # FAdd(trader.records[1].Cash, FMul(FFromInt(trader.records[1].Shares), PriceDecimal))

\* ------------------------------------------------------------------------
\* Properties of the ledger under termination (SpecCrash)
\* ------------------------------------------------------------------------
\* C14: whenever the process has been terminated, the ledger file holds all
\* the records of the manager in memory at that moment (the last persist
\* finished) or all but the last of them (the persist before it), the file
\* being absent when there were none
C14_CrashDurability ==
    call.op = "terminated"
    => \/ trader.records = <<>> /\ files[trader.ticker] = NoFile
       \/ /\ trader.records # <<>>
          /\ \/ files[trader.ticker] = Sheet(to_excel(trader.records))
             \/ /\ Len(trader.records) > 1
                /\ files[trader.ticker]
                     = Sheet(to_excel(SubSeq(trader.records, 1, Len(trader.records) - 1)))
             \/ Len(trader.records) = 1 /\ files[trader.ticker] = NoFile

\* ------------------------------------------------------------------------
\* Properties of smart_rate_limit (SpecThrottle)
\* ------------------------------------------------------------------------
\* places of wrapper inside the with block
InsideLock == {"time", "wait", "sleep", "run", "func", "finally", "exit"}

InFlight == {t \in Threads : threads[t].pc = "func"}

\* C4: at most one wrapped call is in flight, whichever functions are called,
\* and a thread anywhere from the timestamp read to the end of the call holds
\* the lock
C4_MutualExclusion ==
    /\ Cardinality(InFlight) <= 1
    /\ \A t \in Threads : threads[t].pc \in InsideLock => api_lock = t
    /\ Cardinality({t \in Threads : threads[t].pc \in InsideLock}) <= 1

C4_Witness ==
    \E t \in Threads, u \in Threads :
        /\ t # u
        /\ threads[t].pc = "func" /\ threads[t].func = "get_news"
        /\ threads[u].pc = "lock" /\ threads[u].func = "get_insider_transactions"
        /\ Len(requests) = 2
        /\ requests[1].thread = u

\* C5: consecutive wrapped calls begin at least MinInterval apart, so the
\* n-th call begins at least (n - 1) * MinInterval after the first
C5_MinimumSpacing ==
    /\ \A i \in 1..(Len(requests) - 1) :
          requests[i + 1].start - requests[i].start >= MinInterval
    /\ requests # <<>> =>
          requests[Len(requests)].start - requests[1].start
              >= (Len(requests) - 1) * MinInterval

C5_Witness ==
    /\ Len(requests) = 3
    /\ requests[1].thread # requests[2].thread
    /\ requests[2].start = requests[1].start + MinInterval
    /\ requests[3].start = StartTime + 2 * MinInterval
    /\ requests[3].end >= 0

\* C6: when the wrapped call raises, the finally block still stamps
\* last_request_time with the time of completion, the lock is released, the
\* caller gets the same error, and the next wrapped call begins no sooner than
\* MinInterval after that completion
C6_FailureSemantics ==
    [][/\ \A t \in Threads :
            (threads[t].pc = "finally" /\ threads'[t].pc = "exit"
               /\ threads[t].outcome.kind = "raise")
            => last_request_time' = now /\ api_lock' = t
       /\ \A t \in Threads :
            (threads[t].pc = "exit" /\ threads'[t].pc = "idle"
               /\ threads[t].outcome.kind = "raise")
            => /\ api_lock' = Free
               /\ threads'[t].seen = threads[t].outcome
               /\ last_request_time' = requests[Len(requests)].end
       /\ \A i \in 1..(Len(requests') - 1) :
            requests'[i].outcome.kind = "raise"
            => requests'[i + 1].start >= requests'[i].end + MinInterval]_vars

C6_Witness ==
    /\ Len(requests) = 2
    /\ requests[1].outcome.kind = "raise"
    /\ requests[2].start = requests[1].end + MinInterval
    /\ threads[requests[1].thread].seen = [kind |-> "raise", value |-> "RateLimitError"]
    /\ requests[2].thread # requests[1].thread

\* ------------------------------------------------------------------------
\* Progress of smart_rate_limit (SpecThrottleLive)
\* ------------------------------------------------------------------------
\* C27: a thread that has entered wrapper comes to run the wrapped function,
\* a thread running it comes to leave wrapper without the lock, and a lock
\* that is held comes to be free, also after the wrapped call has raised
C27_ThrottleProgress ==
    /\ \A t \in Threads : (threads[t].pc = "lock") ~> (threads[t].pc = "func")
    /\ \A t \in Threads : (threads[t].pc = "func") ~> (threads[t].pc = "idle" /\ api_lock # t)
    /\ \A t \in Threads :
          (threads[t].pc = "finally" /\ threads[t].outcome.kind = "raise") ~> (api_lock = Free)
    /\ (api_lock # Free) ~> (api_lock = Free)

C27_Witness ==
    /\ Len(requests) = 2
    /\ requests[1].outcome.kind = "raise"
    /\ requests[2].outcome.kind = "return"
    /\ requests[2].thread # requests[1].thread
    /\ requests[2].end >= requests[1].end + MinInterval
    /\ api_lock = Free
    /\ \A t \in Threads : threads[t].pc = "idle"

====
